---- MODULE Spec2Model ----
(***************************************************************************)
(* Model of the OpenStack inventory plugin (src/openstack-inventory.py):   *)
(* InventoryModule.parse and the methods it calls.                         *)
(*                                                                         *)
(* Python strings that the code formats, splits or strips are sequences of *)
(* one-character strings, so that "%s_%s" % (a, b), str.split(",") and     *)
(* str.strip() are computed and not assumed.  Dictionaries whose iteration *)
(* order the code relies on (self.servers, self.groups, self.hostvars,     *)
(* metadata) are sequences of <<key, value>> pairs in insertion order.     *)
(* A dictionary with fixed keys (a server record, the plugin config) is a  *)
(* TLA+ function whose DOMAIN is the set of keys present.                  *)
(***************************************************************************)
EXTENDS Integers, Sequences, FiniteSets, TLC

VARIABLES
    pc,              \* position of the current parse call
    error,           \* exception that ended the current parse call, or "none"
    parses,          \* number of parse calls made so far
    path,            \* parse's `path` argument
    use_cache,       \* parse's `cache` argument
    config_data,     \* self._config_data
    show_all,        \* self.show_all
    fail_on_errors,  \* self.fail_on_errors
    cache,           \* self._cache: key -> host-record list
    discovered,      \* the clouds OpenStackInventory found in the config files
    clouds,          \* os_clouds_inventory.clouds
    hosts_data,      \* parse's local hosts_data: <<>> is None, <<l>> is the list l
    servers,         \* self.servers
    pending,         \* _store_host_data calls the second loop has still to make
    hostvars,        \* self.hostvars
    groups,          \* self.groups
    inv_hosts,       \* inventory sink: hosts added by add_host
    inv_groups,      \* inventory sink: groups added by add_group
    inv_children,    \* inventory sink: <<group, host>> pairs added by add_child
    inv_vars,        \* inventory sink: <<host, variable, value>> set by set_variable
    display,         \* warnings and errors shown through Display
    calls,           \* collaborators invoked by the current parse call, in order
    gn_args,         \* arguments of a _get_group_names_from_server_data call
    server_groups    \* its return value, <<>> is "not called yet"

vars == <<pc, error, parses, path, use_cache, config_data, show_all,
          fail_on_errors, cache, discovered, clouds, hosts_data, servers,
          pending, hostvars, groups, inv_hosts, inv_groups, inv_children, inv_vars,
          display, calls, gn_args, server_groups>>

---------------------------------------------------------------------------
(* Bounds of the model.                                                    *)

\* longest host-record list handed to _populate_inventory
MaxHosts == 3
\* longest metadata["groups"] value
MaxLen == 3
\* parse calls in one behaviour
MaxParses == 2

---------------------------------------------------------------------------
(* Python values.                                                          *)

\* {} : the dictionary with no key
EmptyDict == [k \in {} |-> <<>>]

\* None for an optional list, and the wrapping of a list that is there
None == <<>>
Some(l) == <<l>>

\* Truthy, had the test been `hosts_data is None`: a stored [] counts as a hit
Truthy_NotNone(h) == h # None

\* Python truth of an optional list: None and [] are false
Truthy(h) == h # None /\ h[1] # <<>>

\* d.get(k, default) for a dictionary with fixed keys
DictGet(d, k, default) == IF k \in DOMAIN d THEN d[k] ELSE default

\* Ordered dictionaries: sequences of <<key, value>> in insertion order
RECURSIVE ODIndex(_, _)
ODIndex(d, k) ==
    IF d = <<>> THEN 0
    ELSE IF d[Len(d)][1] = k THEN Len(d)
    ELSE ODIndex(SubSeq(d, 1, Len(d) - 1), k)

ODHas(d, k) == \E i \in 1..Len(d) : d[i][1] = k
ODGet(d, k, default) == IF ODHas(d, k) THEN d[ODIndex(d, k)][2] ELSE default
ODKeys(d) == [i \in 1..Len(d) |-> d[i][1]]
\* d[k] = v : an existing key keeps its place, a new key goes last
ODPut(d, k, v) ==
    IF ODHas(d, k) THEN [d EXCEPT ![ODIndex(d, k)] = <<k, v>>]
    ELSE Append(d, <<k, v>>)
\* d[k].append(x) on a collections.defaultdict(list)
ODAppend(d, k, x) == ODPut(d, k, Append(ODGet(d, k, <<>>), x))

\* the elements of a sequence
Range(s) == {s[i] : i \in 1..Len(s)}

\* all sequences over S of length at most n
SeqsUpTo(S, n) == UNION {[1..k -> S] : k \in 0..n}

---------------------------------------------------------------------------
(* Strings.                                                                *)

Comma == ","
Space == " "
Underscore == <<"_">>

\* s.split(",") : "" gives [""], "a,,b" gives ["a", "", "b"]
RECURSIVE Split(_)
Split(s) ==
    IF \A i \in 1..Len(s) : s[i] # Comma THEN <<s>>
    ELSE LET i == CHOOSE j \in 1..Len(s) :
                      s[j] = Comma /\ \A m \in 1..(j - 1) : s[m] # Comma
         IN  <<SubSeq(s, 1, i - 1)>> \o Split(SubSeq(s, i + 1, Len(s)))

\* s.strip() : whitespace removed at both ends
RECURSIVE StripLeft(_)
StripLeft(s) == IF s # <<>> /\ s[1] = Space THEN StripLeft(Tail(s)) ELSE s
RECURSIVE StripRight(_)
StripRight(s) ==
    IF s # <<>> /\ s[Len(s)] = Space
    THEN StripRight(SubSeq(s, 1, Len(s) - 1)) ELSE s
Strip(s) == StripRight(StripLeft(s))

\* the literals of the format strings
S_instance == <<"i", "n", "s", "t", "a", "n", "c", "e", "-">>
S_flavor == <<"f", "l", "a", "v", "o", "r">>
S_image == <<"i", "m", "a", "g", "e">>
S_meta == <<"m", "e", "t", "a", "-">>
Dash == <<"-">>
\* the reserved metadata keys
K_group == <<"g", "r", "o", "u", "p">>
K_groups == <<"g", "r", "o", "u", "p", "s">>

---------------------------------------------------------------------------
(* _get_group_names_from_server_data                                       *)

\* for extra_group in ....split(","): if extra_group: append(extra_group.strip())
RECURSIVE ExtraGroups(_)
ExtraGroups(pieces) ==
    IF pieces = <<>> THEN <<>>
    ELSE (IF Head(pieces) # <<>> THEN <<Strip(Head(pieces))>> ELSE <<>>)
         \o ExtraGroups(Tail(pieces))

\* for key in ("flavor", "image"): if "name" in server_data[key]: ...
FlavorImageGroups(server_data) ==
    (IF "name" \in DOMAIN server_data.flavor
     THEN <<S_flavor \o Dash \o server_data.flavor.name>> ELSE <<>>)
    \o
    (IF "name" \in DOMAIN server_data.image
     THEN <<S_image \o Dash \o server_data.image.name>> ELSE <<>>)

\* for key, value in iter(metadata.items()): "meta-%s_%s" % (key, value)
MetaGroups(metadata) ==
    [i \in 1..Len(metadata) |->
        S_meta \o metadata[i][1] \o Underscore \o metadata[i][2]]

\* az = server_data.get("az", None); if az: ...
AzGroups(server_data) ==
    LET az == DictGet(server_data, "az", <<>>)
    IN  IF az # <<>>
        THEN << az,
                server_data.region \o Underscore \o az,
                server_data.cloud \o Underscore \o server_data.region
                    \o Underscore \o az >>
        ELSE <<>>

_get_group_names_from_server_data(server_data, namegroup) ==
    LET region == server_data.region
        cloud == server_data.cloud
        metadata == DictGet(server_data, "metadata", <<>>)
    IN  <<cloud>>
        \o (IF region # <<>> THEN <<region>> ELSE <<>>)
        \o <<cloud \o Underscore \o region>>
        \o (IF ODHas(metadata, K_group)
            THEN <<ODGet(metadata, K_group, <<>>)>> ELSE <<>>)
        \o ExtraGroups(Split(ODGet(metadata, K_groups, <<>>)))
        \o <<S_instance \o server_data.id>>
        \o (IF namegroup THEN <<server_data.name>> ELSE <<>>)
        \o FlavorImageGroups(server_data)
        \o MetaGroups(metadata)
        \o AzGroups(server_data)

---------------------------------------------------------------------------
(* Inputs: the server records the host enumerator can return.              *)

Rax == <<"r", "a", "x">>
Cloud1 == <<"c", "1">>
Cloud2 == <<"c", "2">>
N1 == <<"n", "1">>
N2 == <<"n", "2">>
I1 == <<"i", "1">>
I2 == <<"i", "2">>
I3 == <<"i", "3">>
I4 == <<"i", "4">>
Ip1 == <<"1", "0">>
Ip2 == <<"2", "0">>

\* first listing of instance i1
SrvA == [name |-> N1, id |-> I1, interface_ip |-> Ip1, cloud |-> Cloud1,
         region |-> <<"r">>, az |-> <<"z">>, flavor |-> [name |-> <<"f">>],
         image |-> EmptyDict, metadata |-> << <<K_group, <<"w">>>> >>]
\* another instance with the name of SrvA
SrvB == [name |-> N1, id |-> I2, interface_ip |-> Ip1, cloud |-> Cloud2,
         region |-> <<>>, flavor |-> EmptyDict, image |-> [name |-> <<"m">>]]
\* second listing of instance i1, through another interface
SrvC == [SrvA EXCEPT !.interface_ip = Ip2]
\* an instance without interface_ip
SrvD == [name |-> N2, id |-> I3, cloud |-> Cloud2, region |-> <<>>,
         flavor |-> EmptyDict, image |-> EmptyDict, metadata |-> <<>>]
\* a record with the id of SrvB and another name
SrvE == [name |-> N2, id |-> I2, interface_ip |-> Ip2, cloud |-> Cloud2,
         region |-> <<"r">>, flavor |-> EmptyDict, image |-> EmptyDict]
\* an instance whose name is the id of SrvA
SrvF == [name |-> I1, id |-> I4, interface_ip |-> Ip1, cloud |-> Cloud1,
         region |-> <<"r">>, flavor |-> EmptyDict, image |-> EmptyDict]

ServerPool == {SrvA, SrvB, SrvC, SrvD, SrvE, SrvF}

\* the values metadata["groups"] is drawn from
GroupsAlphabet == {"a", Comma, Space}
GroupsStrings == SeqsUpTo(GroupsAlphabet, MaxLen)

\* the metadata dictionaries group derivation is checked on
MetadataPool ==
    {<<>>, << <<K_group, <<"w">>>> >>, << <<<<"k">>, <<"v">>>> >>}
    \cup {<< <<K_groups, s>> >> : s \in GroupsStrings}
    \cup {<< <<K_group, <<"w">>>>, <<K_groups, s>> >> : s \in GroupsStrings}

\* the records group derivation is checked on
GroupServers ==
    { [name |-> N1, id |-> I1, cloud |-> Rax, region |-> r, flavor |-> f,
       image |-> i] @@ a @@ m :
        r \in {<<>>, <<"r">>},
        f \in {EmptyDict, [name |-> <<"f">>]},
        i \in {EmptyDict, [name |-> <<"m">>]},
        a \in {EmptyDict, [az |-> <<>>], [az |-> <<"z">>]},
        m \in {EmptyDict} \cup {[metadata |-> d] : d \in MetadataPool} }

---------------------------------------------------------------------------
(* The state every specification starts from, but for its own inputs.      *)

Bool(b) == <<"bool", b>>
Str(s) == <<"str", s>>
List(l) == <<"list", l>>
NoneValue == <<"none", FALSE>>

\* Python truth of a config value
PyTruth(v) ==
    CASE v[1] = "none" -> FALSE
      [] v[1] = "bool" -> v[2]
      [] v[1] = "str" -> v[2] # ""
      [] v[1] = "list" -> v[2] # <<>>

\* NAME
NAME == "openstack-inventory"

PluginConfig == [plugin |-> Str(NAME)]

Fresh ==
    /\ error = "none"
    /\ parses = 0
    /\ path = ""
    /\ use_cache = FALSE
    /\ cache = EmptyDict
    /\ discovered = <<>>
    /\ clouds = <<>>
    /\ servers = <<>>
    /\ pending = <<>>
    /\ hostvars = <<>>
    /\ groups = <<>>
    /\ inv_hosts = {}
    /\ inv_groups = {}
    /\ inv_children = {}
    /\ inv_vars = {}
    /\ display = {}
    /\ calls = <<>>

---------------------------------------------------------------------------
(* Group derivation on its own: one call of the pure function.             *)

InitGroups ==
    /\ Fresh
    /\ pc = "idle"
    /\ config_data = PluginConfig
    /\ show_all = Bool(FALSE)
    /\ fail_on_errors = Bool(FALSE)
    /\ hosts_data = None
    /\ gn_args \in [server : GroupServers, namegroup : BOOLEAN]
    /\ server_groups = <<>>

GetGroupNames ==
    /\ server_groups = <<>>
    /\ server_groups' =
           _get_group_names_from_server_data(gn_args.server, gn_args.namegroup)
    /\ UNCHANGED <<pc, error, parses, path, use_cache, config_data, show_all,
                   fail_on_errors, cache, discovered, clouds, hosts_data, servers, pending,
                   hostvars, groups, inv_hosts, inv_groups, inv_children,
                   inv_vars, display, calls, gn_args>>

NextGroups == GetGroupNames

SpecGroups == InitGroups /\ [][NextGroups]_vars

---------------------------------------------------------------------------
(* _populate_inventory and the passes it runs.                             *)

\* use_server_id = self._config_data.get("inventory_hostname", "name") != "name"
UseServerId(cfg) == DictGet(cfg, "inventory_hostname", Str("name")) # Str("name")

\* Unreachable, had the `not` before self.show_all been left out
Unreachable_ShowAll(server, show) ==
    "interface_ip" \notin DOMAIN server /\ PyTruth(show)

\* if "interface_ip" not in server and not self.show_all: continue
Unreachable(server, show) ==
    "interface_ip" \notin DOMAIN server /\ ~PyTruth(show)

\* the first loop of _populate_inventory_hosts: self.servers[name].append(server)
RECURSIVE CollectServers(_, _, _)
CollectServers(hosts, show, acc) ==
    IF hosts = <<>> THEN acc
    ELSE CollectServers(
             Tail(hosts), show,
             IF Unreachable(Head(hosts), show) THEN acc
             ELSE ODAppend(acc, Head(hosts).name, Head(hosts)))

StoreCall(host, server_data, namegroup) ==
    [host |-> host, server_data |-> server_data, namegroup |-> namegroup]

\* PartitionCalls without the trap for duplicate results: any name listed
\* twice is keyed by id
PartitionCalls_NoTrap(name, server_data, use_server_id) ==
    IF Len(server_data) = 1 /\ ~use_server_id
    THEN <<StoreCall(name, server_data[1], FALSE)>>
    ELSE [i \in 1..Len(server_data) |->
             StoreCall(server_data[i].id, server_data[i], TRUE)]

\* PartitionCalls, had the last branch stored server_data[0] alone
PartitionCalls_FirstOnly(name, server_data, use_server_id) ==
    LET server_ids == {server_data[i].id : i \in 1..Len(server_data)}
    IN  IF Cardinality(server_ids) = 1 /\ ~use_server_id
        THEN <<StoreCall(name, server_data[1], FALSE)>>
        ELSE <<StoreCall(server_data[1].id, server_data[1], TRUE)>>

\* the body of the second loop: the _store_host_data calls of one name
PartitionCalls(name, server_data, use_server_id) ==
    IF Len(server_data) = 1 /\ ~use_server_id
    THEN <<StoreCall(name, server_data[1], FALSE)>>
    ELSE LET server_ids == {server_data[i].id : i \in 1..Len(server_data)}
         IN  IF Cardinality(server_ids) = 1 /\ ~use_server_id
             THEN <<StoreCall(name, server_data[1], FALSE)>>
             ELSE [i \in 1..Len(server_data) |->
                      StoreCall(server_data[i].id, server_data[i], TRUE)]

\* the second loop: for name, server_data in self.servers.items()
RECURSIVE StoreCalls(_, _)
StoreCalls(srvs, use_server_id) ==
    IF srvs = <<>> THEN <<>>
    ELSE PartitionCalls(srvs[1][1], srvs[1][2], use_server_id)
         \o StoreCalls(Tail(srvs), use_server_id)

\* for group in ...: self.groups[group].append(host)
RECURSIVE AppendToGroups(_, _, _)
AppendToGroups(grps, names, host) ==
    IF names = <<>> THEN grps
    ELSE AppendToGroups(ODAppend(grps, Head(names), host), Tail(names), host)

\* the dict(...) that _store_host_data builds
HostVars(server_data) ==
    [ansible_ssh_host |-> server_data.interface_ip,
     ansible_host |-> server_data.interface_ip,
     openstack |-> server_data]

\* _populate_inventory up to the end of the first loop of
\* _populate_inventory_hosts; the calls of the second loop are laid out
PopulateInventoryHosts ==
    /\ pc = "populate"
    /\ LET srvs == CollectServers(hosts_data[1], show_all, <<>>)
       IN  /\ servers' = srvs
           /\ pending' = StoreCalls(srvs, UseServerId(config_data))
    /\ groups' = <<>>
    /\ hostvars' = <<>>
    /\ calls' = Append(calls, "populate")
    /\ pc' = "hosts"
    /\ UNCHANGED <<error, parses, path, use_cache, config_data, show_all,
                   fail_on_errors, cache, discovered, clouds, hosts_data, inv_hosts,
                   inv_groups, inv_children, inv_vars, display, gn_args,
                   server_groups>>

\* one _store_host_data call; server_data["interface_ip"] raises KeyError
\* before anything is stored
StoreHostData ==
    /\ pc = "hosts"
    /\ pending # <<>>
    /\ LET call == Head(pending)
       IN  IF "interface_ip" \notin DOMAIN call.server_data
           THEN /\ pc' = "error"
                /\ error' = "KeyError"
                /\ UNCHANGED <<pending, hostvars, inv_hosts, groups>>
           ELSE /\ hostvars' =
                       ODPut(hostvars, call.host, HostVars(call.server_data))
                /\ inv_hosts' = inv_hosts \cup {call.host}
                /\ groups' =
                       AppendToGroups(
                           groups,
                           _get_group_names_from_server_data(
                               call.server_data, call.namegroup),
                           call.host)
                /\ pending' = Tail(pending)
                /\ UNCHANGED <<pc, error>>
    /\ UNCHANGED <<parses, path, use_cache, config_data, show_all,
                   fail_on_errors, cache, discovered, clouds, hosts_data, servers,
                   inv_groups, inv_children, inv_vars, display, calls,
                   gn_args, server_groups>>

\* inventory.set_variable(host, variable, value) for every variable of `hv`
SetVariables(sink, host, hv) ==
    {t \in sink : ~(t[1] = host /\ t[2] \in DOMAIN hv)}
    \cup {<<host, k, hv[k]>> : k \in DOMAIN hv}

\* _populate_inventory_variables: the first loop leaves `host` bound to the
\* last key of self.hostvars (no compose option: nothing is composed); the
\* second loop, which is not nested in the first, pushes that host's
\* variables.  With no host, `host` is unbound and the second loop raises.
PopulateInventoryVariables ==
    /\ pc = "hosts"
    /\ pending = <<>>
    /\ IF hostvars = <<>>
       THEN /\ pc' = "error"
            /\ error' = "NameError"
            /\ UNCHANGED inv_vars
       ELSE /\ LET host == hostvars[Len(hostvars)][1]
               IN  inv_vars' =
                       SetVariables(inv_vars, host, ODGet(hostvars, host, <<>>))
            /\ pc' = "groups"
            /\ UNCHANGED error
    /\ UNCHANGED <<parses, path, use_cache, config_data, show_all,
                   fail_on_errors, cache, discovered, clouds, hosts_data, servers, pending,
                   hostvars, groups, inv_hosts, inv_groups, inv_children,
                   display, calls, gn_args, server_groups>>

\* _populate_inventory_groups (no groups or keyed_groups option: the first
\* loop adds nothing): add_group for every group, add_child for every member
PopulateInventoryGroups ==
    /\ pc = "groups"
    /\ inv_groups' = inv_groups \cup Range(ODKeys(groups))
    /\ inv_children' =
           inv_children
           \cup UNION {{<<groups[i][1], h>> : h \in Range(groups[i][2])} :
                        i \in 1..Len(groups)}
    /\ pc' = "done"
    /\ UNCHANGED <<error, parses, path, use_cache, config_data, show_all,
                   fail_on_errors, cache, discovered, clouds, hosts_data, servers, pending,
                   hostvars, groups, inv_hosts, inv_vars, display, calls,
                   gn_args, server_groups>>

---------------------------------------------------------------------------
(* The population pass on its own: _populate_inventory on any record list. *)

HostsConfigs ==
    {PluginConfig @@ s @@ h :
        s \in {EmptyDict, [show_all |-> Bool(TRUE)]},
        h \in {EmptyDict, [inventory_hostname |-> Str("name")],
               [inventory_hostname |-> Str("uuid")]}}

InitHosts ==
    /\ Fresh
    /\ pc = "populate"
    /\ config_data \in HostsConfigs
    /\ show_all = DictGet(config_data, "show_all", Bool(FALSE))
    /\ fail_on_errors = Bool(FALSE)
    /\ hosts_data \in {Some(l) : l \in SeqsUpTo(ServerPool, MaxHosts)}
    /\ gn_args = <<>>
    /\ server_groups = <<>>

NextHosts ==
    \/ PopulateInventoryHosts
    \/ StoreHostData
    \/ PopulateInventoryVariables
    \/ PopulateInventoryGroups

SpecHosts == InitHosts /\ [][NextHosts]_vars

---------------------------------------------------------------------------
(* parse and the steps before the population pass.                         *)

\* one check of _verify_config_data_types: value and not isinstance(value, t)
TypeOk(data, k, t) == k \notin DOMAIN data \/ ~PyTruth(data[k]) \/ data[k][1] = t

_verify_config_data_types(data) ==
    /\ TypeOk(data, "clouds_yaml_path", "list")
    /\ TypeOk(data, "debug", "bool")
    /\ TypeOk(data, "expand_hostvars", "bool")
    /\ TypeOk(data, "fail_on_errors", "bool")
    /\ TypeOk(data, "only_clouds", "list")
    /\ TypeOk(data, "show_all", "bool")

\* the error message of _verify_config_data, "" when the data passes
_verify_config_data(data) ==
    IF DOMAIN data = {} THEN "Config file is empty."
    ELSE IF "plugin" \in DOMAIN data /\ data.plugin # Str(NAME)
    THEN "Incorrect plugin config found"
    ELSE IF "plugin" \notin DOMAIN data /\ "clouds" \notin DOMAIN data
    THEN "Missing plugin and clouds configuration"
    ELSE IF ~_verify_config_data_types(data) THEN "Invalid config data type"
    ELSE ""

\* self._get_cache_prefix(path): a key derived from the config path
CacheKey(p) == <<NAME, p>>

\* the config files parse is called on
Paths == {"openstack.yml", "prod/openstack.yml"}

\* what _read_config_data can return
ValidConfigs ==
    {PluginConfig @@ s @@ h @@ f @@ o :
        s \in {EmptyDict, [show_all |-> Bool(TRUE)]},
        h \in {EmptyDict, [inventory_hostname |-> Str("uuid")]},
        f \in {EmptyDict, [fail_on_errors |-> Bool(TRUE)]},
        o \in {EmptyDict, [only_clouds |-> List(<<>>)],
               [only_clouds |-> List(<<Cloud1>>)]}}

InvalidConfigs ==
    { EmptyDict,
      [plugin |-> Str("openstack")],
      [show_all |-> Bool(TRUE)],
      PluginConfig @@ [show_all |-> Str("yes")],
      PluginConfig @@ [only_clouds |-> Str("c1")] }

\* a clouds.yaml given as the plugin's config file
CloudsFile == [clouds |-> Str("clouds.yaml")]

ConfigPool == ValidConfigs \cup InvalidConfigs \cup {CloudsFile}

\* parse up to the end of _load_and_verify_plugin_config.  Each call is
\* handed an empty inventory.
Parse(p, c, data) ==
    /\ pc \in {"idle", "done", "error"}
    /\ parses < MaxParses
    /\ parses' = parses + 1
    /\ path' = p
    /\ use_cache' = c
    /\ hosts_data' = None
    /\ inv_hosts' = {}
    /\ inv_groups' = {}
    /\ inv_children' = {}
    /\ inv_vars' = {}
    /\ calls' = <<"verify">>
    /\ LET msg == _verify_config_data(data)
       IN  IF msg # ""
           THEN /\ config_data' = data
                /\ display' = display \cup {msg}
                /\ pc' = "error"
                /\ error' = "AnsibleParserError"
                /\ UNCHANGED <<show_all, fail_on_errors>>
           ELSE /\ config_data' =
                       IF "clouds" \in DOMAIN data THEN EmptyDict ELSE data
                /\ show_all' = DictGet(config_data', "show_all", Bool(FALSE))
                /\ fail_on_errors' =
                       DictGet(config_data', "fail_on_errors", Bool(FALSE))
                /\ pc' = "cache"
                /\ error' = "none"
                /\ UNCHANGED display
    /\ UNCHANGED <<cache, discovered, clouds, servers, pending, hostvars, groups, gn_args,
                   server_groups>>

\* _load_cache: self._cache[cache_key], None on KeyError
_load_cache(cache_key) ==
    IF cache_key \in DOMAIN cache THEN Some(cache[cache_key]) ELSE None

\* parse: if cache: hosts_data = self._load_cache(cache_key), and the test
\* `if not hosts_data` that follows
LoadCache ==
    /\ pc = "cache"
    /\ IF use_cache
       THEN /\ hosts_data' = _load_cache(CacheKey(path))
            /\ calls' = Append(calls, "cache_get")
       ELSE UNCHANGED <<hosts_data, calls>>
    /\ pc' = IF Truthy(hosts_data') THEN "populate" ELSE "enumerate"
    /\ UNCHANGED <<error, parses, path, use_cache, config_data, show_all,
                   fail_on_errors, cache, discovered, clouds, servers, pending, hostvars,
                   groups, inv_hosts, inv_groups, inv_children, inv_vars,
                   display, gn_args, server_groups>>

\* the clouds that clouds.yaml can hold
DiscoveredClouds == {<<>>, <<Cloud1>>, <<Cloud1, Cloud2>>}

\* the servers of each cloud
CloudServers(c) == IF c = Cloud1 THEN <<SrvA>> ELSE <<SrvB, SrvD>>

RECURSIVE ServersOf(_, _)
ServersOf(cl, failed) ==
    IF cl = <<>> THEN <<>>
    ELSE (IF Head(cl) \in failed THEN <<>> ELSE CloudServers(Head(cl)))
         \o ServersOf(Tail(cl), failed)

\* os_clouds_inventory.list_hosts(expand, fail_on_cloud_config): None is
\* "raises"; with fail_on_cloud_config unset a failing cloud is skipped
ListHostsOutcomes(cl, fail) ==
    {None}
    \cup {Some(ServersOf(cl, failed)) :
             failed \in {f \in SUBSET Range(cl) : PyTruth(fail) => f = {}}}

\* every outcome of list_hosts
AllOutcomes ==
    UNION {ListHostsOutcomes(d, Bool(FALSE)) : d \in DiscoveredClouds}

\* the loop of _get_openstack_clouds_inventory reads self.only_clouds, an
\* attribute that nothing sets: its first iteration raises AttributeError
SelectionRaises(only_clouds, found) ==
    PyTruth(only_clouds) /\ found # <<>>

\* parse: hosts_data = self._get_hosts_data_from_openstack() and
\* self._cache[cache_key] = hosts_data
GetHostsDataFromOpenstack(found, outcome) ==
    /\ pc = "enumerate"
    /\ discovered' = found
    /\ LET only_clouds == DictGet(config_data, "only_clouds", NoneValue)
       IN  IF SelectionRaises(only_clouds, found)
           THEN /\ outcome = None
                /\ clouds' = found
                /\ calls' = Append(calls, "OpenStackInventory")
                /\ pc' = "error"
                /\ error' = "AttributeError"
                /\ UNCHANGED <<hosts_data, cache, display>>
           ELSE /\ clouds' = IF PyTruth(only_clouds) THEN <<>> ELSE found
                /\ outcome \in ListHostsOutcomes(clouds', fail_on_errors)
                /\ hosts_data' =
                       IF outcome = None THEN Some(<<>>) ELSE outcome
                /\ display' =
                       IF outcome = None
                       THEN display \cup {"Couldn't list Openstack hosts."}
                       ELSE display
                /\ cache' = (CacheKey(path) :> hosts_data'[1]) @@ cache
                /\ calls' =
                       calls
                       \o << "OpenStackInventory",
                             IF outcome = None THEN "list_hosts raises"
                             ELSE "list_hosts returns",
                             "cache_set" >>
                /\ pc' = "populate"
                /\ UNCHANGED error
    /\ UNCHANGED <<parses, path, use_cache, config_data, show_all,
                   fail_on_errors, servers, pending, hostvars, groups,
                   inv_hosts, inv_groups, inv_children, inv_vars, gn_args,
                   server_groups>>

---------------------------------------------------------------------------
(* The plugin: any sequence of parse calls.                                *)

Init ==
    /\ Fresh
    /\ pc = "idle"
    /\ config_data = EmptyDict
    /\ show_all = Bool(FALSE)
    /\ fail_on_errors = Bool(FALSE)
    /\ hosts_data = None
    /\ gn_args = <<>>
    /\ server_groups = <<>>

Next ==
    \/ \E p \in Paths, c \in BOOLEAN, data \in ConfigPool : Parse(p, c, data)
    \/ LoadCache
    \/ \E found \in DiscoveredClouds, outcome \in AllOutcomes :
          GetHostsDataFromOpenstack(found, outcome)
    \/ PopulateInventoryHosts
    \/ StoreHostData
    \/ PopulateInventoryVariables
    \/ PopulateInventoryGroups

Spec == Init /\ [][Next]_vars

---------------------------------------------------------------------------
(* What the claims speak of.                                               *)

\* the record list the population pass was given
Hosts == IF hosts_data = None THEN <<>> ELSE hosts_data[1]

HasIp(r) == "interface_ip" \in DOMAIN r

\* the records the show_all filter keeps
Retained == {r \in Range(Hosts) : HasIp(r) \/ PyTruth(show_all)}

\* a parse call has ended
Terminal == pc \in {"done", "error"}

\* the first loop of _populate_inventory_hosts has run
Filtered ==
    \/ pc \in {"hosts", "groups", "done"}
    \/ pc = "error" /\ error \in {"KeyError", "NameError"}

\* the second loop has run to its end
LoopDone ==
    \/ pc = "hosts" /\ pending = <<>>
    \/ pc \in {"groups", "done"}
    \/ pc = "error" /\ error = "NameError"

\* the hosts of a group
Members(g) == Range(ODGet(groups, g, <<>>))

\* the ids listed under the name of r among the retained records
IdsNamedLike(r) == {q.id : q \in {x \in Retained : x.name = r.name}}

\* r is to be keyed by its name
NameKeyed(r) == ~UseServerId(config_data) /\ Cardinality(IdsNamedLike(r)) = 1

---------------------------------------------------------------------------
(* C1 *)

C1_CallFollowsPolicy(call) ==
    LET r == call.server_data
    IN  IF NameKeyed(r)
        THEN call.host = r.name /\ ~call.namegroup
        ELSE call.host = r.id /\ call.namegroup

C1_EveryRecordHasItsCall ==
    \A r \in Retained :
        IF NameKeyed(r)
        THEN Cardinality({i \in 1..Len(pending) :
                             pending[i].server_data.name = r.name}) = 1
        ELSE \E i \in 1..Len(pending) : pending[i].server_data = r

C1_Stored ==
    \A r \in Retained :
        IF NameKeyed(r)
        THEN ODHas(hostvars, r.name) /\ r.name \in inv_hosts
        ELSE /\ ODHas(hostvars, r.id)
             /\ r.id \in inv_hosts
             /\ r.id \in Members(r.name)

\* C1: host identifier policy of _populate_inventory_hosts.  Every
\* _store_host_data call the pass lays out keys its record by `name` with no
\* name-group exactly when inventory_hostname is "name" and the retained
\* records of that name have one single id, and by its own `id` with the
\* name-group otherwise; a name-keyed partition gets exactly one call, every
\* other record its own call; and once the calls are made the host table and
\* the groups hold every record under that key.
C1_HostIdentifierPolicy ==
    Filtered =>
        /\ \A i \in 1..Len(pending) : C1_CallFollowsPolicy(pending[i])
        /\ (pc = "hosts" /\ hostvars = <<>>) => C1_EveryRecordHasItsCall
        /\ LoopDone => C1_Stored

\* a finished pass in mode "name" with a name shared by two ids and a name
\* with a single id
C1_Witness ==
    /\ pc = "done"
    /\ ~UseServerId(config_data)
    /\ \E r \in Retained : NameKeyed(r)
    /\ \E r \in Retained : ~NameKeyed(r) /\ r.id \in Members(r.name)

---------------------------------------------------------------------------
(* C2 *)

\* what _store_host_data leaves in self.hostvars and self.groups after a
\* sequence of calls
RECURSIVE StoreAll(_, _, _)
StoreAll(cs, hv, grps) ==
    IF cs = <<>> THEN [hostvars |-> hv, groups |-> grps]
    ELSE StoreAll(
             Tail(cs),
             ODPut(hv, Head(cs).host, HostVars(Head(cs).server_data)),
             AppendToGroups(
                 grps,
                 _get_group_names_from_server_data(
                     Head(cs).server_data, Head(cs).namegroup),
                 Head(cs).host))

\* the pass on the records that have interface_ip, nothing filtered
C2_PassOnReachable ==
    StoreAll(
        StoreCalls(CollectServers(SelectSeq(Hosts, HasIp), Bool(TRUE), <<>>),
                   UseServerId(config_data)),
        <<>>, <<>>)

\* C2: with show_all false a record lacking interface_ip is never stored as
\* a host and adds no member to any group (the tables are those of the pass
\* on the list without these records), and in either mode of show_all the
\* filter keeps every record that has interface_ip.
C2_UnreachableFiltered ==
    Filtered =>
        /\ \A r \in Range(Hosts) :
               HasIp(r) => r \in Range(ODGet(servers, r.name, <<>>))
        /\ ~PyTruth(show_all) =>
               /\ \A i \in 1..Len(servers) :
                      \A r \in Range(servers[i][2]) : HasIp(r)
               /\ \A i \in 1..Len(pending) : HasIp(pending[i].server_data)
               /\ \A i \in 1..Len(hostvars) : HasIp(hostvars[i][2].openstack)
               /\ \A i \in 1..Len(groups) :
                      Range(groups[i][2]) \subseteq Range(ODKeys(hostvars))
               /\ inv_hosts = Range(ODKeys(hostvars))
               /\ LoopDone =>
                      /\ hostvars = C2_PassOnReachable.hostvars
                      /\ groups = C2_PassOnReachable.groups
               /\ pc = "done" =>
                      inv_children =
                          UNION {{<<C2_PassOnReachable.groups[i][1], h>> :
                                     h \in Range(C2_PassOnReachable.groups[i][2])} :
                                 i \in 1..Len(C2_PassOnReachable.groups)}

\* a finished pass with show_all false on a list with a record that lacks
\* interface_ip and one that has it
C2_Witness ==
    /\ pc = "done"
    /\ ~PyTruth(show_all)
    /\ \E r \in Range(Hosts) : ~HasIp(r)
    /\ \E r \in Range(Hosts) : HasIp(r)
    /\ hostvars # <<>>

---------------------------------------------------------------------------
(* C3 *)

\* rule 5 as stated: split on ",", strip each piece, add the non-empty ones
RECURSIVE C3_Rule5(_)
C3_Rule5(pieces) ==
    IF pieces = <<>> THEN <<>>
    ELSE (IF Strip(Head(pieces)) # <<>> THEN <<Strip(Head(pieces))>> ELSE <<>>)
         \o C3_Rule5(Tail(pieces))

\* rules 1 to 11, in order
C3_Rules(r, namegroup) ==
    LET md == IF "metadata" \in DOMAIN r THEN r.metadata ELSE <<>>
        az == IF "az" \in DOMAIN r THEN r.az ELSE <<>>
    IN  <<r.cloud>>
        \o (IF r.region = <<>> THEN <<>> ELSE <<r.region>>)
        \o <<r.cloud \o <<"_">> \o r.region>>
        \o (IF \E i \in 1..Len(md) : md[i][1] = K_group
            THEN <<md[CHOOSE i \in 1..Len(md) : md[i][1] = K_group][2]>>
            ELSE <<>>)
        \o (IF \E i \in 1..Len(md) : md[i][1] = K_groups
            THEN C3_Rule5(
                     Split(md[CHOOSE i \in 1..Len(md) : md[i][1] = K_groups][2]))
            ELSE <<>>)
        \o <<S_instance \o r.id>>
        \o (IF namegroup THEN <<r.name>> ELSE <<>>)
        \o (IF "name" \in DOMAIN r.flavor
            THEN <<S_flavor \o <<"-">> \o r.flavor.name>> ELSE <<>>)
        \o (IF "name" \in DOMAIN r.image
            THEN <<S_image \o <<"-">> \o r.image.name>> ELSE <<>>)
        \o [i \in 1..Len(md) |-> S_meta \o md[i][1] \o <<"_">> \o md[i][2]]
        \o (IF az = <<>> THEN <<>>
            ELSE <<az, r.region \o <<"_">> \o az,
                   r.cloud \o <<"_">> \o r.region \o <<"_">> \o az>>)

\* C3: _get_group_names_from_server_data returns exactly the groups of
\* rules 1 to 11, in that order, for the record and the namegroup flag it is
\* given; in particular no piece of metadata["groups"] yields an empty name.
C3_GroupsAreRules1To11 ==
    server_groups # <<>> =>
        server_groups = C3_Rules(gn_args.server, gn_args.namegroup)

---------------------------------------------------------------------------
(* C4 *)

\* C4: after a completed population pass every variable of every host of
\* the host table has been pushed to the inventory through set_variable.
C4_EveryHostHasItsVariables ==
    pc = "done" =>
        \A i \in 1..Len(hostvars) :
            \A k \in DOMAIN hostvars[i][2] :
                <<hostvars[i][1], k, hostvars[i][2][k]>> \in inv_vars

---------------------------------------------------------------------------
(* C5 *)

\* C5: with show_all true a record lacking interface_ip is kept: the pass
\* ends without error, the record is a host of the host table and a member
\* of its groups.
C5_ShowAllKeepsUnreachable ==
    (Terminal /\ PyTruth(show_all)) =>
        \A r \in Range(Hosts) :
            ~HasIp(r) =>
                /\ error = "none"
                /\ \E i \in 1..Len(hostvars) :
                       /\ hostvars[i][2].openstack = r
                       /\ hostvars[i][1] \in Members(S_instance \o r.id)

---------------------------------------------------------------------------
(* C6 *)

\* C6: a pass in which no record is retained raises no error and sends no
\* host, no group and no variable to the inventory.
C6_EmptyPassIsEmpty ==
    (Terminal /\ Retained = {}) =>
        /\ error = "none"
        /\ inv_hosts = {}
        /\ inv_groups = {}
        /\ inv_children = {}
        /\ inv_vars = {}

---------------------------------------------------------------------------
(* C7 *)

ListHostsRaised == "list_hosts raises" \in Range(calls)

\* C7: when list_hosts raises and fail_on_errors is true the pass aborts
\* with an error and no host reaches the inventory; when fail_on_errors is
\* false the failure is only logged and the pass completes normally.
C7_EnumerationErrorPolicy ==
    ListHostsRaised =>
        IF PyTruth(fail_on_errors)
        THEN /\ pc \notin {"populate", "hosts", "groups", "done"}
             /\ error # "none"
             /\ inv_hosts = {}
        ELSE /\ "Couldn't list Openstack hosts." \in display
             /\ Terminal => (pc = "done" /\ error = "none")

---------------------------------------------------------------------------
(* C8 *)

AllHaveIp == \A r \in Range(Hosts) : HasIp(r)

\* the host entries whose `openstack` value is r
EntriesOf(r) == {i \in 1..Len(hostvars) : hostvars[i][2].openstack = r}

C8_IdsIdentify ==
    \A r \in Range(Hosts), q \in Range(Hosts) :
        r # q => (r.id # q.id /\ r.name # q.id)

---------------------------------------------------------------------------
(* C9 *)

\* the only_clouds option, as a list
OnlyClouds ==
    LET v == DictGet(config_data, "only_clouds", NoneValue)
    IN  IF PyTruth(v) THEN v[2] ELSE <<>>

InOnlyClouds(c) == c \in Range(OnlyClouds)

\* C9: _get_openstack_clouds_inventory ends without error and leaves the
\* enumerator with the discovered clouds named in only_clouds, in discovery
\* order, or with all of them when only_clouds is empty or absent.
C9_OnlyCloudsSelected ==
    (calls # <<>> /\ calls[Len(calls)] \in {"OpenStackInventory", "cache_set"}) =>
        /\ error # "AttributeError"
        /\ clouds = IF OnlyClouds # <<>>
                    THEN SelectSeq(discovered, InOnlyClouds)
                    ELSE discovered

---------------------------------------------------------------------------
(* C10 *)

Count(x) == Cardinality({i \in 1..Len(calls) : calls[i] = x})

\* the enumerator was built by the current parse call
Enumerated == Count("OpenStackInventory") > 0

\* the current parse call is past _load_and_verify_plugin_config
Verified == pc \in {"cache", "enumerate", "populate", "hosts", "groups", "done"}
            \/ (pc = "error" /\ error # "AnsibleParserError")

\* the current parse call has a host-record list to build the inventory from
Building == pc \in {"populate", "hosts", "groups", "done"}
            \/ (pc = "error" /\ error \in {"KeyError", "NameError"})

\* the cache holds a non-empty list under the key of the current path
CacheHolds == CacheKey(path) \in DOMAIN cache /\ cache[CacheKey(path)] # <<>>

\* C10: in any sequence of parse calls, a call whose cache is enabled and
\* holds a non-empty list under the key of its path does not invoke the
\* enumerator and builds the inventory from the cached list; any other call
\* invokes the enumerator once, stores its result under that key and builds
\* the inventory from that result; and the configuration is verified before
\* any cache read or enumeration.
C10_CacheShortCircuit ==
    /\ (pc = "error" /\ error = "AnsibleParserError") => calls = <<"verify">>
    /\ Verified =>
           /\ calls[1] = "verify"
           /\ config_data = EmptyDict \/ _verify_config_data(config_data) = ""
    /\ Count("OpenStackInventory") <= 1
    /\ (Enumerated \/ pc = "enumerate") =>
           \* a miss: nothing was read, or nothing usable was there, and the
           \* cache is as it was read until the result is stored
           \/ ~use_cache
           \/ Count("cache_set") = 1
           \/ ~CacheHolds
    /\ (Building /\ ~Enumerated) =>
           /\ use_cache
           /\ Count("cache_get") = 1
           /\ CacheHolds
           /\ hosts_data = Some(cache[CacheKey(path)])
    /\ (Building /\ Enumerated) =>
           /\ Count("list_hosts raises") + Count("list_hosts returns") = 1
           /\ Count("cache_set") = 1
           /\ CacheKey(path) \in DOMAIN cache
           /\ hosts_data = Some(cache[CacheKey(path)])
           /\ ListHostsRaised => hosts_data = Some(<<>>)
    /\ (Building /\ pc # "populate") =>
           servers = CollectServers(hosts_data[1], show_all, <<>>)

\* a second parse call that ended, built from the cache without enumerating
C10_Witness ==
    /\ parses = 2
    /\ pc = "done"
    /\ use_cache
    /\ ~Enumerated
    /\ hostvars # <<>>

====
